---- MODULE Spec2Model ----
(***************************************************************************)
(* Model of smd_hpi/model-converter/main.cpp: the driver main, the Weight   *)
(* Packer convert_params_file (with convert_to_binary) and the Graph        *)
(* Annotator convert_json_file.                                             *)
(*                                                                          *)
(* Text (std::string, char*, JSON strings) is a sequence of atoms.  An atom *)
(* is a character ("/", "-", "m", "NUL", ...) or an indivisible chunk of    *)
(* text that holds no other atom of the model ("qconvolution", "weight",    *)
(* "binarized_", ...).  assert() and RAPIDJSON_ASSERT() are modelled as     *)
(* written in the source: enabled (main.cpp never defines NDEBUG), a failed *)
(* one ends the process by abort().  A failed dmlc CHECK and an uncaught    *)
(* std::out_of_range end the process the same way (std::terminate).         *)
(***************************************************************************)
EXTENDS Integers, Sequences, FiniteSets, TLC

VARIABLES
  argc,        \* main's argc
  argv1,       \* the buffer argv[1] points to (dirname may write into it)
  env,         \* what the build and the machine fix: word width, libc, permissions
  disk,        \* the input files: [params: ..., symbol: ...]
  written,     \* the files the run has written so far: set of [path, kind, content]
  pc,          \* position in the program
  calls,       \* the stages invoked so far, in order
  strs,        \* main's std::string locals
  keys,        \* convert_params_file: std::vector<std::string> keys
  data,        \* convert_params_file: std::vector<mxnet::NDArray> data
  iter,        \* convert_params_file: iter, as a 1-based index (Len(keys)+1 = end)
  d,           \* convert_json_file: rapidjson::Document d
  itr,         \* convert_json_file: itr, as a 1-based index into nodes
  rets,        \* the return values of the stages that have returned, by stage
  exitKind,    \* "running" | "returned" | "aborted"
  exitCode     \* the process's exit status once it is not running

vars == <<argc, argv1, env, disk, written, pc, calls, strs, keys, data, iter,
          d, itr, rets, exitKind, exitCode>>

----------------------------------------------------------------------------
(* Bounds of the model *)

MaxFile == 3      \* atoms in the file name of argv[1]
MaxDir == 2       \* atoms in the directory part of argv[1]
MaxEntries == 2   \* entries of a checkpoint container
MaxNodes == 2     \* nodes of a graph document

----------------------------------------------------------------------------
(* std::string and <libgen.h> *)

NPOS == -1

\* The sequences over S of length lo..hi
SeqsOf(S, lo, hi) == UNION {[1..n -> S] : n \in lo..hi}

\* std::string::find(sub): 0-based position of the first occurrence, or npos
Find(s, sub) ==
  LET hits == {i \in 1..(Len(s) - Len(sub) + 1) : SubSeq(s, i, i + Len(sub) - 1) = sub}
  IN IF hits = {} THEN NPOS ELSE (CHOOSE i \in hits : \A j \in hits : i <= j) - 1

\* std::string::rfind(c): 0-based position of the last occurrence, or npos
RFind(s, c) ==
  LET hits == {i \in 1..Len(s) : s[i] = c}
  IN IF hits = {} THEN NPOS ELSE (CHOOSE i \in hits : \A j \in hits : i >= j) - 1

\* std::string::erase(pos) throws std::out_of_range when pos > size(); npos is
\* the largest size_t
EraseThrows(s, pos) == pos = NPOS \/ pos > Len(s)

\* std::string::erase(pos): the first pos characters remain
Erase(s, pos) == SubSeq(s, 1, pos)

\* dirname(3) for a path with no trailing slash: the part before the last
\* slash ("/" when that slash is the first character), "." without a slash
Dirname(p) ==
  LET k == RFind(p, "/")
  IN IF k = NPOS THEN <<".">> ELSE IF k = 0 THEN <<"/">> ELSE SubSeq(p, 1, k)

\* What dirname(3) leaves in the buffer it was given.  POSIX lets it modify the
\* buffer: glibc and musl write a NUL over the last slash, so the buffer then
\* reads as the directory; the BSD libc copies and leaves the buffer alone.
BufferAfterDirname(p, modifies) ==
  IF modifies /\ RFind(p, "/") # NPOS THEN Dirname(p) ELSE p

\* basename(3), the POSIX one of <libgen.h>, for a path with no trailing slash
Basename(p) ==
  LET k == RFind(p, "/")
  IN IF k = NPOS \/ Len(p) = 1 THEN p ELSE SubSeq(p, k + 2, Len(p))

\* exit status of a process whose main returns r
ExitStatus(r) == r % 256

\* exit status a shell reports for a process ended by abort()
AbortStatus == 128 + 6

----------------------------------------------------------------------------
(* The Weight Packer: convert_to_binary and convert_params_file *)

\* mshadow::mshadow_sizeof(dtype), in bytes
mshadow_sizeof(dtype) == IF dtype = "float64" THEN 8 ELSE 4

\* sizeof(BINARY_WORD) for a build whose BITS_PER_BINARY_WORD is bits
SizeofBinaryWord(bits) == bits \div 8

\* nnvm::TShape::Size(): the product of the dimensions
RECURSIVE ShapeSize(_)
ShapeSize(shape) ==
  IF shape = <<>> THEN 1 ELSE Head(shape) * ShapeSize(Tail(shape))

\* The asserts of convert_to_binary with the first dimension checked, not the
\* second
ConvertAsserts_FirstDim(array, bits) ==
  /\ mshadow_sizeof(array.dtype) = SizeofBinaryWord(bits)
  /\ Len(array.shape) >= 2
  /\ array.shape[1] % bits = 0

\* The three asserts of convert_to_binary, in their order: the second aborts
\* before the third reads shape()[1]
ConvertAsserts(array, bits) ==
  /\ mshadow_sizeof(array.dtype) = SizeofBinaryWord(bits)
  /\ Len(array.shape) >= 2
  /\ array.shape[2] % bits = 0

\* convert_to_binary with the size taken from the first two dimensions only
convert_to_binary_TwoDims(array, bits) ==
  [shape |-> <<(array.shape[1] * array.shape[2]) \div bits>>,
   dtype |-> array.dtype,
   data  |-> <<"get_binary_row">> \o array.data]

\* convert_to_binary past its asserts: a 1-dimensional array of
\* size / BITS_PER_BINARY_WORD words of the same dtype, filled by get_binary_row
convert_to_binary(array, bits) ==
  [shape |-> <<ShapeSize(array.shape) \div bits>>,
   dtype |-> array.dtype,
   data  |-> <<"get_binary_row">> \o array.data]

filter_strings == << <<"qconvolution">>, <<"qfullyconnected">> >>

\* containsFilterString with only the first filter string looked for
containsFilterString_FirstOnly(line_in_params) ==
  Find(line_in_params, filter_strings[1]) # NPOS

\* The lambda containsFilterString: some filter string occurs in the name
containsFilterString(line_in_params) ==
  \E f \in 1..Len(filter_strings) : Find(line_in_params, filter_strings[f]) # NPOS

\* std::find_if(first, keys.end(), containsFilterString) with first the 1-based
\* index from; Len(ks) + 1 is keys.end()
FindIf(ks, from) ==
  LET hits == {i \in from..Len(ks) : containsFilterString(ks[i])}
  IN IF hits = {} THEN Len(ks) + 1 ELSE CHOOSE i \in hits : \A j \in hits : i <= j

\* The CHECK of the loop body left out
CheckWeight_None(name) == TRUE

\* The CHECK of the loop body: the name holds "weight"
CheckWeight(name) == Find(name, <<"weight">>) # NPOS

Abort ==
  /\ pc' = "exit"
  /\ exitKind' = "aborted"
  /\ exitCode' = AbortStatus

Return(r) ==
  /\ pc' = "exit"
  /\ exitKind' = "returned"
  /\ exitCode' = ExitStatus(r)

\* main, lines 164-169: the argument count
MainUsage ==
  /\ pc = "main"
  /\ argc # 2
  /\ Return(-1)
  /\ UNCHANGED <<argc, argv1, env, disk, written, calls, strs, keys, data, iter,
                 d, itr, rets>>

\* main, lines 171-179: the paths, then the call of convert_params_file.
\* erase throws when the base name has no hyphen.
MainPaths ==
  /\ pc = "main"
  /\ argc = 2
  /\ LET params_file      == argv1
         path             == Dirname(argv1)
         buffer           == BufferAfterDirname(argv1, env.dirnameModifies)
         params_file_name == Basename(buffer)
         pos              == RFind(params_file_name, "-")
     IN /\ argv1' = buffer
        /\ IF EraseThrows(params_file_name, pos)
           THEN /\ Abort
                /\ UNCHANGED <<strs, calls>>
           ELSE /\ strs' = [strs EXCEPT
                     !.params_file = params_file,
                     !.path = path,
                     !.params_file_name = params_file_name,
                     !.base_name = Erase(params_file_name, pos),
                     !.output_name = path \o <<"/", "binarized_">> \o params_file_name]
                /\ calls' = Append(calls, "convert_params_file")
                /\ pc' = "params_load"
                /\ UNCHANGED <<exitKind, exitCode>>
  /\ UNCHANGED <<argc, env, disk, written, keys, data, iter, d, itr, rets>>

\* convert_params_file, lines 49-71: load the container (dmlc::Stream::Create
\* is fatal on a file it cannot open), then the first find_if
ParamsLoad ==
  /\ pc = "params_load"
  /\ IF disk.params.path # strs.params_file \/ ~disk.params.readable
     THEN /\ Abort
          /\ UNCHANGED <<keys, data, iter>>
     ELSE /\ keys' = disk.params.keys
          /\ data' = disk.params.data
          /\ iter' = FindIf(disk.params.keys, 1)
          /\ pc' = "params_loop"
          /\ UNCHANGED <<exitKind, exitCode>>
  /\ UNCHANGED <<argc, argv1, env, disk, written, calls, strs, d, itr, rets>>

\* convert_params_file, lines 75-85: one iteration of the while loop
ParamsConvert ==
  /\ pc = "params_loop"
  /\ iter # Len(keys) + 1
  /\ IF ~CheckWeight(keys[iter]) \/ ~ConvertAsserts(data[iter], env.wordBits)
     THEN /\ Abort
          /\ UNCHANGED <<data, iter>>
     ELSE /\ data' = [data EXCEPT ![iter] = convert_to_binary(data[iter], env.wordBits)]
          /\ iter' = FindIf(keys, iter + 1)
          /\ UNCHANGED <<pc, exitKind, exitCode>>
  /\ UNCHANGED <<argc, argv1, env, disk, written, calls, strs, keys, d, itr, rets>>

\* convert_params_file, lines 88-93: save the container and return 0
\* (dmlc::Stream::Create is fatal on a file it cannot open for writing)
ParamsSave ==
  /\ pc = "params_loop"
  /\ iter = Len(keys) + 1
  /\ IF ~env.paramsOutWritable
     THEN /\ Abort
          /\ UNCHANGED <<written, rets>>
     ELSE /\ written' = written \cup
               {[path |-> strs.output_name, kind |-> "params",
                 content |-> [keys |-> keys, data |-> data]]}
          /\ rets' = rets @@ ("params" :> 0)
          /\ pc' = "params_returned"
          /\ UNCHANGED <<exitKind, exitCode>>
  /\ UNCHANGED <<argc, argv1, env, disk, calls, strs, keys, data, iter, d, itr>>

----------------------------------------------------------------------------
(* The Graph Annotator: convert_json_file *)

\* A C string read from a rapidjson string by GetString(): it ends at the
\* first NUL (a JSON string may hold "\u0000"; rapidjson keeps its full length)
RECURSIVE CStr(_)
CStr(s) ==
  IF s = <<>> \/ Head(s) = "NUL" THEN <<>> ELSE <<Head(s)>> \o CStr(Tail(s))

\* std::strcmp(a, b) == 0
StrcmpEqual(a, b) == CStr(a) = CStr(b)

\* The condition of lines 125-127 negated: the node is one to annotate
IsQNode(node) ==
  /\ node.opKind # "missing"
  /\ node.opKind = "string"
  /\ \/ StrcmpEqual(node.op, <<"QConvolution">>)
     \/ StrcmpEqual(node.op, <<"QFullyConnected">>)

\* AddMember as a last-write-wins insertion: a member of the same name is
\* overwritten
RECURSIVE SetMember(_, _, _)
SetMember(object, name, value) ==
  IF object = <<>> THEN <<[k |-> name, v |-> value]>>
  ELSE IF Head(object).k = name THEN <<[k |-> name, v |-> value]>> \o Tail(object)
  ELSE <<Head(object)>> \o SetMember(Tail(object), name, value)

\* rapidjson's Value::AddMember: the member is appended to the object's member
\* list; no member of the same name is looked for
AddMember(object, name, value) == Append(object, [k |-> name, v |-> value])

\* Lines 131-136 abort: assert(HasMember("attr")), RAPIDJSON_ASSERT(IsObject())
\* in AddMember, assert(HasMember("name")), RAPIDJSON_ASSERT(IsString()) in
\* GetString
AttrAsserts_None(node) == TRUE
AttrAsserts(node) == node.attrKind = "object"
NameAsserts(node) == node.nameKind = "string"

\* Lines 131-133 on a node to annotate
Annotated(node) ==
  [node EXCEPT !.attr = AddMember(node.attr, "binarized_weights_only", "True")]

\* main, lines 179-186: convert_params_file has returned; a nonzero result is
\* returned, else the graph paths are built and convert_json_file is called
MainAfterParams ==
  /\ pc = "params_returned"
  /\ LET ret == IF rets["params"] # 0 THEN 1 ELSE 0
     IN IF ret # 0
        THEN /\ Return(ret)
             /\ UNCHANGED <<strs, calls>>
        ELSE /\ strs' = [strs EXCEPT
                  !.json_file_name = strs.path \o <<"/">> \o strs.base_name
                                     \o <<"-", "symbol.json">>,
                  !.json_out_fname = strs.path \o <<"/", "binarized_">> \o strs.base_name
                                     \o <<"-", "symbol.json">>]
             /\ calls' = Append(calls, "convert_json_file")
             /\ pc' = "json_open"
             /\ UNCHANGED <<exitKind, exitCode>>
  /\ UNCHANGED <<argc, argv1, env, disk, written, keys, data, iter, d, itr, rets>>

\* convert_json_file with the is_open() test left out
JsonOpen_NoTest ==
  /\ pc = "json_open"
  /\ pc' = "json_parse"
  /\ UNCHANGED <<argc, argv1, env, disk, written, calls, strs, keys, data, iter,
                 d, itr, rets, exitKind, exitCode>>

\* convert_json_file, lines 104-115: open and read the input, or return -1
JsonOpen ==
  /\ pc = "json_open"
  /\ IF ~disk.symbol.exists \/ disk.symbol.path # strs.json_file_name
     THEN /\ rets' = rets @@ ("json" :> -1)
          /\ pc' = "json_returned"
     ELSE /\ pc' = "json_parse"
          /\ UNCHANGED rets
  /\ UNCHANGED <<argc, argv1, env, disk, written, calls, strs, keys, data, iter,
                 d, itr, exitKind, exitCode>>

\* convert_json_file, lines 117-124: parse; HasMember on a document that is no
\* object, a missing "nodes" and a "nodes" that is no array abort
JsonParse ==
  /\ pc = "json_parse"
  /\ LET doc == disk.symbol.doc
     IN IF doc.top # "object" \/ doc.nodesKind # "array"
        THEN /\ Abort
             /\ UNCHANGED <<d, itr>>
        ELSE /\ d' = doc
             /\ itr' = 1
             /\ pc' = "json_loop"
             /\ UNCHANGED <<exitKind, exitCode>>
  /\ UNCHANGED <<argc, argv1, env, disk, written, calls, strs, keys, data, iter, rets>>

\* convert_json_file, lines 124-137: one iteration of the for loop
JsonNode ==
  /\ pc = "json_loop"
  /\ itr # Len(d.nodes) + 1
  /\ LET node == d.nodes[itr]
     IN IF ~IsQNode(node)
        THEN /\ itr' = itr + 1
             /\ UNCHANGED <<d, pc, exitKind, exitCode>>
        ELSE IF ~AttrAsserts(node)
        THEN /\ Abort
             /\ UNCHANGED <<d, itr>>
        ELSE /\ d' = [d EXCEPT !.nodes[itr] = Annotated(node)]
             /\ IF ~NameAsserts(node)
                THEN /\ Abort
                     /\ UNCHANGED itr
                ELSE /\ itr' = itr + 1
                     /\ UNCHANGED <<pc, exitKind, exitCode>>
  /\ UNCHANGED <<argc, argv1, env, disk, written, calls, strs, keys, data, iter, rets>>

\* convert_json_file, lines 139-156: serialize and write the output, or return -1
JsonWrite ==
  /\ pc = "json_loop"
  /\ itr = Len(d.nodes) + 1
  /\ IF ~env.jsonOutWritable
     THEN /\ rets' = rets @@ ("json" :> -1)
          /\ UNCHANGED written
     ELSE /\ written' = written \cup
               {[path |-> strs.json_out_fname, kind |-> "symbol", content |-> d]}
          /\ rets' = rets @@ ("json" :> 0)
  /\ pc' = "json_returned"
  /\ UNCHANGED <<argc, argv1, env, disk, calls, strs, keys, data, iter, d, itr,
                 exitKind, exitCode>>

\* main with the result of convert_json_file ignored
MainAfterJson_IgnoresRet ==
  /\ pc = "json_returned"
  /\ Return(0)
  /\ UNCHANGED <<argc, argv1, env, disk, written, calls, strs, keys, data, iter,
                 d, itr, rets>>

\* main, lines 186-190: ret is the value of (convert_json_file(...) != 0)
MainAfterJson ==
  /\ pc = "json_returned"
  /\ LET ret == IF rets["json"] # 0 THEN 1 ELSE 0
     IN IF ret # 0 THEN Return(ret) ELSE Return(0)
  /\ UNCHANGED <<argc, argv1, env, disk, written, calls, strs, keys, data, iter,
                 d, itr, rets>>

Next ==
  \/ MainUsage
  \/ MainPaths
  \/ ParamsLoad
  \/ ParamsConvert
  \/ ParamsSave
  \/ MainAfterParams
  \/ JsonOpen
  \/ JsonParse
  \/ JsonNode
  \/ JsonWrite
  \/ MainAfterJson

----------------------------------------------------------------------------
(* The inputs of a run *)

WordWidths == {32, 64}

\* File names and directory names of argv[1]
FileNames == SeqsOf({"m", "-"}, 1, MaxFile)
DirNames == SeqsOf({"d", "-"}, 1, MaxDir)
Paths == FileNames \cup {dir \o <<"/">> \o f : dir \in DirNames, f \in FileNames}

\* Where the graph description of the checkpoint at path p lies: in p's
\* directory, named by p's file name up to its last hyphen (the whole file name
\* when it has none)
CompanionPath(p) ==
  LET file == Basename(p)
      pos  == RFind(file, "-")
      prefix == IF pos = NPOS THEN file ELSE Erase(file, pos)
  IN Dirname(p) \o <<"/">> \o prefix \o <<"-", "symbol.json">>

Tensor(shape, dtype) == [shape |-> shape, dtype |-> dtype, data |-> <<"floats">>]

Entry(name, tensor) == [name |-> name, tensor |-> tensor]

\* Tensors of a selected weight entry: every way through the three asserts for
\* both word widths
WeightTensors ==
  {Tensor(<<4>>, "float32"), Tensor(<<2, 32>>, "float32"), Tensor(<<2, 64>>, "float32"),
   Tensor(<<2, 48>>, "float32"), Tensor(<<32, 3>>, "float32"),
   Tensor(<<1, 32, 3>>, "float32"), Tensor(<<2, 64>>, "float64")}

Entries ==
  {Entry(<<"qconvolution", "0_", "weight">>, t) : t \in WeightTensors}
  \cup {Entry(<<"fc_", "qfullyconnected", "1_", "weight">>, t) :
          t \in {Tensor(<<2, 32>>, "float32"), Tensor(<<2, 64>>, "float64"),
                 Tensor(<<4>>, "float32")}}
  \cup {Entry(<<"qconvolution", "0_", "bias">>, t) :
          t \in {Tensor(<<4>>, "float32"), Tensor(<<2, 32>>, "float32")}}
  \cup {Entry(<<"QConvolution", "0_", "weight">>, t) :
          t \in {Tensor(<<2, 32>>, "float32"), Tensor(<<2, 48>>, "float32")}}
  \cup {Entry(<<"fc", "0_", "weight">>, t) :
          t \in {Tensor(<<2, 32>>, "float32"), Tensor(<<4>>, "float32")}}

\* A checkpoint container as NDArray::Load delivers it: the names and the
\* tensors, in the file's order
Container(entries) ==
  [keys |-> [i \in 1..Len(entries) |-> entries[i].name],
   data |-> [i \in 1..Len(entries) |-> entries[i].tensor]]

Containers == {Container(es) : es \in SeqsOf(Entries, 0, MaxEntries)}

ContainerOk ==
  Container(<<Entry(<<"qconvolution", "0_", "weight">>, Tensor(<<2, 32>>, "float32")),
              Entry(<<"fc", "0_", "weight">>, Tensor(<<4>>, "float32"))>>)

ContainerBadShape ==
  Container(<<Entry(<<"qconvolution", "0_", "weight">>, Tensor(<<2, 48>>, "float32"))>>)

ContainersFew == {ContainerOk, ContainerBadShape}

\* A node of the graph document, a JSON object.  op, attr and name may be
\* missing or of another JSON type than the one the code reads.
Node(opKind, op, attrKind, attr, nameKind) ==
  [opKind |-> opKind, op |-> op, attrKind |-> attrKind, attr |-> attr,
   nameKind |-> nameKind]

Flag == [k |-> "binarized_weights_only", v |-> "True"]
Kernel == [k |-> "kernel", v |-> "(3,3)"]

Nodes ==
  {Node("string", <<"QConvolution">>, ak, <<>>, "string") : ak \in {"missing", "nonobject"}}
  \cup {Node("string", <<"QConvolution">>, "object", a, "string") :
          a \in {<<>>, <<Flag>>, <<Kernel>>}}
  \cup {Node("string", <<"QConvolution">>, "object", <<>>, nk) :
          nk \in {"missing", "nonstring"}}
  \cup {Node("string", <<"QFullyConnected">>, "object", a, "string") :
          a \in {<<>>, <<Flag>>}}
  \cup {Node("string", <<"QConvolution", "NUL", "x">>, "object", <<>>, "string")}
  \cup {Node("string", <<"Convolution">>, "object", a, "string") : a \in {<<>>, <<Flag>>}}
  \cup {Node("string", <<"Convolution">>, "missing", <<>>, nk) :
          nk \in {"string", "missing"}}
  \cup {Node("string", <<"qconvolution">>, "object", <<>>, "string")}
  \cup {Node("nonstring", <<>>, ak, <<>>, "string") : ak \in {"object", "missing"}}
  \cup {Node("missing", <<>>, "object", <<>>, "string")}

Doc(top, nodesKind, nodes) == [top |-> top, nodesKind |-> nodesKind, nodes |-> nodes]

Docs ==
  {Doc("object", "array", ns) : ns \in SeqsOf(Nodes, 0, MaxNodes)}
  \cup {Doc("invalid", "missing", <<>>), Doc("object", "missing", <<>>),
        Doc("object", "nonarray", <<>>)}

DocOk ==
  Doc("object", "array",
      <<Node("string", <<"Convolution">>, "object", <<>>, "string"),
        Node("string", <<"QConvolution">>, "object", <<>>, "string")>>)

DocsFew == {DocOk, Doc("object", "missing", <<>>)}

\* A run with nothing wrong
Base ==
  [argc |-> 2, argv1 |-> <<"m", "-", "m">>, wordBits |-> 32, dirnameModifies |-> FALSE,
   paramsReadable |-> TRUE, paramsOutWritable |-> TRUE, symbolExists |-> TRUE,
   jsonOutWritable |-> TRUE, container |-> ContainerOk, doc |-> DocOk]

\* The runs of the driver: every argument, libc and missing file, few contents
DriverInputs ==
  {[Base EXCEPT !.argv1 = a, !.dirnameModifies = m, !.paramsReadable = r,
                !.symbolExists = e, !.container = c, !.doc = dd] :
     a \in Paths, m \in BOOLEAN, r \in BOOLEAN, e \in BOOLEAN,
     c \in ContainersFew, dd \in DocsFew}
  \cup {[Base EXCEPT !.argc = n] : n \in {1, 3}}
  \cup {[Base EXCEPT !.paramsOutWritable = pw, !.jsonOutWritable = jw, !.argv1 = a] :
          pw \in BOOLEAN, jw \in BOOLEAN, a \in {<<"m", "-", "m">>, <<"d", "/", "m", "-">>}}

\* The runs of the Weight Packer: every container, both word widths
PackerInputs ==
  {[Base EXCEPT !.container = c, !.wordBits = w] : c \in Containers, w \in WordWidths}
  \cup {[Base EXCEPT !.container = c, !.paramsReadable = FALSE] : c \in Containers}
  \cup {[Base EXCEPT !.container = c, !.paramsOutWritable = FALSE] : c \in Containers}
  \cup {[Base EXCEPT !.argc = 1]}

\* The runs of the Graph Annotator: every document
AnnotatorInputs ==
  {[Base EXCEPT !.doc = dd, !.symbolExists = e, !.jsonOutWritable = w] :
     dd \in Docs, e \in BOOLEAN, w \in BOOLEAN}
  \cup {[Base EXCEPT !.argc = 3]}

NullDoc == Doc("null", "missing", <<>>)

\* The state at the entry of main for the run inp
Setup(inp) ==
  /\ argc = inp.argc
  /\ argv1 = inp.argv1
  /\ env = [wordBits |-> inp.wordBits, dirnameModifies |-> inp.dirnameModifies,
            paramsOutWritable |-> inp.paramsOutWritable,
            jsonOutWritable |-> inp.jsonOutWritable]
  /\ disk = [params |-> [path |-> inp.argv1, readable |-> inp.paramsReadable,
                         keys |-> inp.container.keys, data |-> inp.container.data],
             symbol |-> [path |-> CompanionPath(inp.argv1), exists |-> inp.symbolExists,
                         doc |-> inp.doc]]
  /\ written = {}
  /\ pc = "main"
  /\ calls = <<>>
  /\ strs = [params_file |-> <<>>, path |-> <<>>, params_file_name |-> <<>>,
             base_name |-> <<>>, output_name |-> <<>>, json_file_name |-> <<>>,
             json_out_fname |-> <<>>]
  /\ keys = <<>>
  /\ data = <<>>
  /\ iter = 1
  /\ d = NullDoc
  /\ itr = 1
  /\ rets = <<>>
  /\ exitKind = "running"
  /\ exitCode = 0

Init == \E inp \in DriverInputs : Setup(inp)
InitPacker == \E inp \in PackerInputs : Setup(inp)
InitAnnotator == \E inp \in AnnotatorInputs : Setup(inp)

Spec == Init /\ [][Next]_vars
SpecPacker == InitPacker /\ [][Next]_vars
SpecAnnotator == InitAnnotator /\ [][Next]_vars

----------------------------------------------------------------------------
(* What the properties speak of *)

\* The container and the document the run was given
InKeys == disk.params.keys
InData == disk.params.data
InNodes == disk.symbol.doc.nodes

\* The files the run has written, by kind
PackedFiles == {f \in written : f.kind = "params"}
GraphFiles == {f \in written : f.kind = "symbol"}

Invoked(stage) == \E i \in 1..Len(calls) : calls[i] = stage

HasAtom(name, a) == \E i \in 1..Len(name) : name[i] = a

\* The name holds "qconvolution" or "qfullyconnected"
NamesLayer(name) == HasAtom(name, "qconvolution") \/ HasAtom(name, "qfullyconnected")

\* The name holds "weight"
NamesWeight(name) == HasAtom(name, "weight")

\* The op field is the string "QConvolution" or "QFullyConnected", exactly
ExactQOp(node) ==
  node.opKind = "string" /\ node.op \in {<<"QConvolution">>, <<"QFullyConnected">>}

\* How often key occurs in an attribute map
RECURSIVE CountKey(_, _)
CountKey(attr, key) ==
  IF attr = <<>> THEN 0
  ELSE (IF Head(attr).k = key THEN 1 ELSE 0) + CountKey(Tail(attr), key)

\* The file name and the directory of the checkpoint argument as it was given
ArgFile == Basename(disk.params.path)
ArgDir == Dirname(disk.params.path)

----------------------------------------------------------------------------
(* C1 *)

\* The packing preconditions hold for every entry named as a layer's weight
WeightsPackable ==
  \A i \in 1..Len(InKeys) :
    NamesLayer(InKeys[i]) /\ NamesWeight(InKeys[i])
      => ConvertAsserts(InData[i], env.wordBits)

\* C1 as stated: once convert_params_file is over on a readable checkpoint
\* whose weights can be packed, the output is written and holds every entry,
\* transformed if and only if its name holds "qconvolution" or "qfullyconnected"
\* and "weight", every other entry (one named "qconvolution0_bias" too)
\* identical to the input.
C1_Original ==
  ( /\ pc \in {"params_returned", "exit"}
    /\ Invoked("convert_params_file")
    /\ disk.params.readable /\ env.paramsOutWritable
    /\ WeightsPackable )
  => \E f \in PackedFiles :
       /\ f.content.keys = InKeys
       /\ \A i \in 1..Len(InKeys) :
            (NamesLayer(InKeys[i]) /\ NamesWeight(InKeys[i]))
              <=> f.content.data[i] # InData[i]

\* C1 amended: whenever the packed checkpoint is written, an entry is
\* transformed if and only if its name holds "qconvolution" or "qfullyconnected"
\* and "weight", every other entry is identical to the input, and no entry's
\* name holds a filter string without "weight" (such a checkpoint is never
\* written).
C1_Selection ==
  \A f \in PackedFiles :
    /\ f.content.keys = InKeys
    /\ \A i \in 1..Len(InKeys) :
         /\ (NamesLayer(InKeys[i]) /\ NamesWeight(InKeys[i]))
              <=> f.content.data[i] # InData[i]
         /\ ~(NamesLayer(InKeys[i]) /\ ~NamesWeight(InKeys[i]))

\* A written checkpoint with a packed entry and an untouched one whose name
\* holds "weight" but no filter string
C1_Witness ==
  \E f \in PackedFiles : \E i, j \in 1..Len(InKeys) :
    /\ f.content.data[i] # InData[i]
    /\ f.content.data[j] = InData[j]
    /\ NamesWeight(InKeys[j])

----------------------------------------------------------------------------
(* C2 *)

NonWeightLayerEntry(i) == NamesLayer(InKeys[i]) /\ ~NamesWeight(InKeys[i])

\* C2: when some entry's name holds "qconvolution" or "qfullyconnected" but not
\* "weight", no file is ever written, convert_params_file never returns, and a
\* run that entered it ends by a fatal error.
C2_NonWeightFatal ==
  (\E i \in 1..Len(InKeys) : NonWeightLayerEntry(i))
  => /\ written = {}
     /\ "params" \notin DOMAIN rets
     /\ ~Invoked("convert_json_file")
     /\ (pc = "exit" /\ Invoked("convert_params_file") => exitKind = "aborted")

\* The run died on a second entry without "weight" after the first entry was
\* packed in memory
C2_Witness ==
  /\ pc = "exit" /\ exitKind = "aborted"
  /\ iter = 2 /\ Len(keys) >= 2
  /\ NonWeightLayerEntry(2)
  /\ data[1] # InData[1]
  /\ written = {}

----------------------------------------------------------------------------
(* C3 *)

BadDimsEntry(i) ==
  /\ NamesLayer(InKeys[i])
  /\ \/ Len(InData[i].shape) < 2
     \/ InData[i].shape[2] % env.wordBits # 0

\* C3: when some entry selected for packing has fewer than 2 dimensions or a
\* second dimension that is no multiple of the word width, no file is ever
\* written (neither the packed checkpoint nor the graph document) and a run
\* that entered convert_params_file ends by a fatal error.
C3_DimensionFatal ==
  (\E i \in 1..Len(InKeys) : BadDimsEntry(i))
  => /\ written = {}
     /\ "params" \notin DOMAIN rets
     /\ ~Invoked("convert_json_file")
     /\ (pc = "exit" /\ Invoked("convert_params_file") => exitKind = "aborted")

\* The run died on a second entry of a bad shape after the first entry passed
\* the asserts and was packed in memory
C3_Witness ==
  /\ pc = "exit" /\ exitKind = "aborted"
  /\ iter = 2 /\ Len(keys) >= 2
  /\ BadDimsEntry(2) /\ NamesWeight(InKeys[2])
  /\ Len(InData[2].shape) >= 2
  /\ data[1] # InData[1]
  /\ written = {}

----------------------------------------------------------------------------
(* C9 *)

\* C9: a written checkpoint holds the input's names in the input's order; a
\* packed entry is 1-dimensional, of the input's element count divided by the
\* word width, exactly: length * width is the element count.
C9_PackedLength ==
  \A f \in PackedFiles :
    /\ f.content.keys = InKeys
    /\ Len(f.content.data) = Len(InData)
    /\ \A i \in 1..Len(InData) :
         f.content.data[i] # InData[i]
         => /\ Len(f.content.data[i].shape) = 1
            /\ f.content.data[i].shape[1] = ShapeSize(InData[i].shape) \div env.wordBits
            /\ f.content.data[i].shape[1] * env.wordBits = ShapeSize(InData[i].shape)

\* A written checkpoint whose second entry is a packed 3-dimensional tensor,
\* after an untouched first entry
C9_Witness ==
  \E f \in PackedFiles :
    /\ Len(InData) >= 2
    /\ f.content.data[1] = InData[1]
    /\ f.content.data[2] # InData[2]
    /\ Len(InData[2].shape) = 3

----------------------------------------------------------------------------
(* C4 *)

\* C4 as stated: in a written graph document the nodes are those of the input,
\* in its order; a node's attribute map is changed, and then holds
\* "binarized_weights_only" = "True", if and only if its op is exactly
\* "QConvolution" or "QFullyConnected"; every other field of every node is the
\* input's.
C4_Original ==
  \A f \in GraphFiles :
    /\ Len(f.content.nodes) = Len(InNodes)
    /\ \A i \in 1..Len(InNodes) :
         LET in == InNodes[i]
             out == f.content.nodes[i]
         IN /\ [out EXCEPT !.attr = in.attr] = in
            /\ ExactQOp(in) <=> out.attr # in.attr
            /\ ExactQOp(in) => CountKey(out.attr, "binarized_weights_only") >= 1

----------------------------------------------------------------------------
(* C5 *)

\* Every node the annotator matches already carries the key
AlreadyAnnotated ==
  \A i \in 1..Len(InNodes) :
    ExactQOp(InNodes[i]) => CountKey(InNodes[i].attr, "binarized_weights_only") = 1

\* C5 as stated: the document written for an already annotated input holds the
\* key exactly once in each matching node and is the input itself.
C5_Original ==
  \A f \in GraphFiles :
    AlreadyAnnotated
    => /\ \A i \in 1..Len(InNodes) :
            ExactQOp(InNodes[i])
            => CountKey(f.content.nodes[i].attr, "binarized_weights_only") = 1
       /\ f.content.nodes = InNodes

\* C5 amended: each run appends one member "binarized_weights_only" = "True"
\* to the attribute map of each matching node and keeps the members that were
\* there: the key occurs once more than in the input.
C5_AppendsMember ==
  \A f \in GraphFiles :
    \A i \in 1..Len(InNodes) :
      ExactQOp(InNodes[i])
      => /\ f.content.nodes[i].attr = Append(InNodes[i].attr, Flag)
         /\ CountKey(f.content.nodes[i].attr, "binarized_weights_only")
              = CountKey(InNodes[i].attr, "binarized_weights_only") + 1

\* A document written for an already annotated input: the key occurs twice
C5_Witness ==
  \E f \in GraphFiles : \E i \in 1..Len(InNodes) :
    /\ AlreadyAnnotated
    /\ ExactQOp(InNodes[i])
    /\ CountKey(f.content.nodes[i].attr, "binarized_weights_only") = 2

----------------------------------------------------------------------------
(* C6 *)

\* The run is over, the annotator was called and the graph file is missing
MissingGraphFileRun ==
  pc = "exit" /\ Invoked("convert_json_file") /\ ~disk.symbol.exists

\* C6 as stated: then the annotator returned a failure code, the exit status
\* is nonzero and the run has created no output file.
C6_Original ==
  MissingGraphFileRun
  => /\ "json" \in DOMAIN rets /\ rets["json"] # 0
     /\ exitCode # 0
     /\ written = {}

\* C6 amended: then the annotator returned a failure code, the exit status is
\* nonzero and no graph document was created; the packed checkpoint, written
\* by the first stage, is the one file of the run.
C6_MissingGraphFile ==
  MissingGraphFileRun
  => /\ "json" \in DOMAIN rets /\ rets["json"] = -1
     /\ exitKind = "returned" /\ exitCode # 0
     /\ GraphFiles = {}
     /\ written = {[path |-> strs.output_name, kind |-> "params",
                    content |-> [keys |-> keys, data |-> data]]}

C6_Witness == MissingGraphFileRun /\ exitCode = 1 /\ Cardinality(written) = 1

----------------------------------------------------------------------------
(* C7 *)

BothStagesSucceeded ==
  /\ DOMAIN rets = {"params", "json"}
  /\ rets["params"] = 0
  /\ rets["json"] = 0

\* C7: the stages are invoked in program order, the annotator only after the
\* packer returned 0; a run ends with status 0 only when both stages returned 0
\* (and wrote their files), with a nonzero status otherwise; a wrong argument
\* count ends the run with a nonzero status and no stage invoked; a run whose
\* packer did not return success never invokes the annotator.
C7_StageOrder ==
  /\ calls \in {<<>>, <<"convert_params_file">>,
                <<"convert_params_file", "convert_json_file">>}
  /\ Invoked("convert_json_file") => ("params" \in DOMAIN rets /\ rets["params"] = 0)
  /\ pc = "exit" =>
       /\ exitCode = 0 <=> BothStagesSucceeded
       /\ exitCode = 0 =>
            /\ exitKind = "returned"
            /\ Cardinality(PackedFiles) = 1 /\ Cardinality(GraphFiles) = 1
       /\ argc # 2 => (exitCode # 0 /\ calls = <<>>)

\* A run that ended with status 0
C7_Witness == pc = "exit" /\ exitCode = 0 /\ BothStagesSucceeded

----------------------------------------------------------------------------
(* C8 *)

\* The annotator has read the graph file and the run is over
AnnotatorRanOn(doc) ==
  /\ pc = "exit"
  /\ Invoked("convert_json_file")
  /\ disk.symbol.exists /\ disk.symbol.path = strs.json_file_name
  /\ disk.symbol.doc = doc

NodesMissing(doc) == doc.top = "object" /\ doc.nodesKind = "missing"
SomeOpNotString(doc) ==
  \E i \in 1..Len(doc.nodes) : doc.nodes[i].opKind = "nonstring"
SomeMatchWithoutAttr(doc) ==
  \E i \in 1..Len(doc.nodes) : ExactQOp(doc.nodes[i]) /\ doc.nodes[i].attrKind = "missing"

\* C8 as stated: a document with no "nodes", with a node whose op is no
\* string, or with a matching node without "attr" aborts the process and no
\* output document is written.
C8_Original ==
  \A doc \in {disk.symbol.doc} :
    AnnotatorRanOn(doc)
    /\ (NodesMissing(doc) \/ SomeOpNotString(doc) \/ SomeMatchWithoutAttr(doc))
    => exitKind = "aborted" /\ GraphFiles = {}

\* C8 amended: a document with no "nodes" or with a matching node without
\* "attr" aborts the process and no output document is written; a node whose
\* op is no string does not abort it: the node is skipped and is written
\* unchanged.
C8_StructuralValidation ==
  \A doc \in {disk.symbol.doc} :
    /\ AnnotatorRanOn(doc) /\ (NodesMissing(doc) \/ SomeMatchWithoutAttr(doc))
       => exitKind = "aborted" /\ GraphFiles = {}
    /\ pc = "json_loop" =>
         \A i \in 1..(itr - 1) : doc.nodes[i].opKind = "nonstring" => d.nodes[i] = doc.nodes[i]
    /\ \A f \in GraphFiles : \A i \in 1..Len(doc.nodes) :
         doc.nodes[i].opKind = "nonstring" => f.content.nodes[i] = doc.nodes[i]
    /\ AnnotatorRanOn(doc) /\ doc.top = "object" /\ doc.nodesKind = "array"
       /\ (\A i \in 1..Len(doc.nodes) : doc.nodes[i].opKind # "string")
       => exitKind = "returned"

\* The loop skipped a first node whose op is no string and the process then
\* aborted on a matching second node without "attr"
C8_Witness ==
  /\ AnnotatorRanOn(disk.symbol.doc)
  /\ exitKind = "aborted"
  /\ itr = 2 /\ Len(InNodes) >= 2
  /\ InNodes[1].opKind = "nonstring"
  /\ ExactQOp(InNodes[2]) /\ InNodes[2].attrKind = "missing"

----------------------------------------------------------------------------
(* C10 *)

\* C10 as stated: with a checkpoint file name that holds no hyphen main ends
\* abnormally before any stage is invoked and nothing is written; with one that
\* holds a hyphen the graph paths are <dir>/<prefix>-symbol.json and
\* <dir>/binarized_<prefix>-symbol.json, <prefix> the file name up to its last
\* hyphen.
C10_Original ==
  /\ (argc = 2 /\ RFind(ArgFile, "-") = NPOS /\ pc # "main")
     => (exitKind = "aborted" /\ calls = <<>> /\ written = {})
  /\ (argc = 2 /\ RFind(ArgFile, "-") # NPOS /\ Invoked("convert_json_file"))
     => LET prefix == SubSeq(ArgFile, 1, RFind(ArgFile, "-"))
        IN /\ strs.json_file_name = ArgDir \o <<"/">> \o prefix \o <<"-", "symbol.json">>
           /\ strs.json_out_fname =
                ArgDir \o <<"/", "binarized_">> \o prefix \o <<"-", "symbol.json">>

====
